---- MODULE Spec2Model ----
(***************************************************************************)
(* A model of package jws (JSON Web Signature): the compact splitter and   *)
(* its streaming variant, Sign / SignMulti, Verify (compact and JSON       *)
(* paths) and VerifySet.                                                   *)
(*                                                                         *)
(* Byte strings are sequences of integers 0..255.  The Signer / Verifier   *)
(* capabilities are ideal: the Signer records every (alg, key, message,    *)
(* signature) it produced in `ledger`, and the Verifier accepts exactly    *)
(* the recorded tuples.                                                    *)
(***************************************************************************)
EXTENDS Integers, Sequences, FiniteSets, TLC

VARIABLES
    \* ---- process-wide state and the Sign / Verify session ----
    signers,      \* the Signer cache: algorithm -> Signer instance, 0 for no entry
    made,         \* the Signers NewSigner has constructed: made[i] is the
                  \* algorithm of instance i
    ledger,       \* what the ideal Signer has signed: [alg, mat, msg, sig]
    call,         \* the signing call that produced the message (inputs and result)
    buf,          \* the serialized message now at hand: [text, doc]
    edit,         \* what was done to the message after signing
    vcall,        \* the inputs of the last Verify / VerifySet call
    ret,          \* the result of the last Verify / VerifySet call
    dst,          \* the message sink handed to Verify
    \* ---- SplitCompactReader's locals, and the reader it drains ----
    rdr,          \* the reader: [src, pos] (pos bytes delivered so far)
    sofar, protected, payload, signature, periods, state,
    splitRet,     \* the result of SplitCompactReader, "running" until it returns
    \* ---- concurrent Sign calls ----
    muSigner,     \* the mutex: 0 when free, else the process holding it
    pc,           \* where each process stands in Sign
    frame,        \* each process's arguments, locals and result of Sign
    \* ---- Parse / ParseReader ----
    parsed,       \* the last call of Parse, ParseReader or Verify on a raw buffer
    \* ---- AlgorithmsForKey ----
    keyTypeToAlgorithms,  \* the registry: key type -> algorithms, in order
    algLog        \* the calls of AlgorithmsForKey made so far: [key, res]

vars == <<signers, made, ledger, call, buf, edit, vcall, ret, dst,
          rdr, sofar, protected, payload, signature, periods, state, splitRet,
          muSigner, pc, frame, parsed, keyTypeToAlgorithms, algLog>>

mainVars == <<signers, made, ledger, call, buf, edit, vcall, ret, dst>>
splitVars == <<rdr, sofar, protected, payload, signature, periods, state, splitRet>>
concVars == <<muSigner, pc, frame>>
algVars == <<keyTypeToAlgorithms, algLog>>

----------------------------------------------------------------------------
(* Bytes *)

DOT == 46
LBRACE == 123

Min(a, b) == IF a < b THEN a ELSE b

\* bytes.IndexByte, 1-based; 0 when c does not occur (Go's -1)
RECURSIVE IndexFrom(_, _, _)
IndexFrom(s, c, i) ==
    IF i > Len(s) THEN 0
    ELSE IF s[i] = c THEN i
    ELSE IndexFrom(s, c, i + 1)

IndexByte(s, c) == IndexFrom(s, c, 1)

Count(s, c) == Cardinality({i \in 1..Len(s) : s[i] = c})

Contains(s, c) == IndexByte(s, c) # 0

\* bytes.Split(s, sep) for a one-byte separator: Count(s, sep) + 1 parts
RECURSIVE Split(_, _)
Split(s, sep) ==
    LET i == IndexByte(s, sep)
    IN  IF i = 0 THEN <<s>>
        ELSE <<SubSeq(s, 1, i - 1)>> \o Split(SubSeq(s, i + 1, Len(s)), sep)

----------------------------------------------------------------------------
(* base64url without padding, as Go's encoding/base64 RawURLEncoding       *)
(* computes it: the decoder skips CR and LF, rejects every other byte      *)
(* outside the alphabet and a dangling single symbol, and (it is not in    *)
(* Strict mode) ignores the unused low bits of the last symbol.            *)

B64Char(i) ==
    IF i < 26 THEN 65 + i
    ELSE IF i < 52 THEN 71 + i
    ELSE IF i < 62 THEN i - 4
    ELSE IF i = 62 THEN 45
    ELSE 95

B64Index(c) ==
    IF c >= 65 /\ c <= 90 THEN c - 65
    ELSE IF c >= 97 /\ c <= 122 THEN c - 71
    ELSE IF c >= 48 /\ c <= 57 THEN c + 4
    ELSE IF c = 45 THEN 62
    ELSE IF c = 95 THEN 63
    ELSE -1

RECURSIVE EncodeToString(_)
EncodeToString(b) ==
    IF Len(b) = 0 THEN <<>>
    ELSE IF Len(b) = 1 THEN
        <<B64Char(b[1] \div 4), B64Char((b[1] % 4) * 16)>>
    ELSE IF Len(b) = 2 THEN
        <<B64Char(b[1] \div 4),
          B64Char((b[1] % 4) * 16 + (b[2] \div 16)),
          B64Char((b[2] % 16) * 4)>>
    ELSE
        <<B64Char(b[1] \div 4),
          B64Char((b[1] % 4) * 16 + (b[2] \div 16)),
          B64Char((b[2] % 16) * 4 + (b[3] \div 64)),
          B64Char(b[3] % 64)>> \o EncodeToString(SubSeq(b, 4, Len(b)))

\* the symbols' 6-bit values -> bytes
RECURSIVE DecodeQuanta(_)
DecodeQuanta(v) ==
    IF Len(v) = 0 THEN <<>>
    ELSE IF Len(v) = 2 THEN <<v[1] * 4 + (v[2] \div 16)>>
    ELSE IF Len(v) = 3 THEN
        <<v[1] * 4 + (v[2] \div 16), (v[2] % 16) * 16 + (v[3] \div 4)>>
    ELSE
        <<v[1] * 4 + (v[2] \div 16),
          (v[2] % 16) * 16 + (v[3] \div 4),
          (v[3] % 4) * 64 + v[4]>> \o DecodeQuanta(SubSeq(v, 5, Len(v)))

NotNewline(c) == c # 10 /\ c # 13

\* base64.Decode: [ok, val]
Decode(s) ==
    LET t == SelectSeq(s, NotNewline)
        v == [i \in 1..Len(t) |-> B64Index(t[i])]
    IN  IF (\E i \in 1..Len(v) : v[i] = -1) \/ Len(v) % 4 = 1
        THEN [ok |-> FALSE, val |-> <<>>]
        ELSE [ok |-> TRUE, val |-> DecodeQuanta(v)]

----------------------------------------------------------------------------
(* The eager splitter *)

ErrSegments == "invalid number of segments"

\* SplitCompact: [ok, err, protected, payload, signature]
SplitFail(e) ==
    [ok |-> FALSE, err |-> e, protected |-> <<>>, payload |-> <<>>, signature |-> <<>>]

SplitCompact(src) ==
    LET parts == Split(src, DOT)
    IN  IF Len(parts) < 3 THEN SplitFail(ErrSegments)
        ELSE [ok |-> TRUE, err |-> "", protected |-> parts[1],
              payload |-> parts[2], signature |-> parts[3]]

----------------------------------------------------------------------------
(* SplitCompactReader: one action per Read of the underlying reader *)

ChunkSize == 4096

ErrRead == "unexpected end of input"

\* splitRet: the call has not returned yet / has returned res
Running == [done |-> FALSE, res |-> SplitFail("")]

Return(res) == [done |-> TRUE, res |-> res]

\* the function's locals, as one record
Locals == [sofar |-> sofar, protected |-> protected, payload |-> payload,
           signature |-> signature, periods |-> periods, state |-> state]

\* the inner loop (`for loop := true; loop; `) run to its end on the bytes
\* accumulated so far; eof: the Read that filled them returned io.EOF
RECURSIVE Scan(_, _)
Scan(st, eof) ==
    LET i == IndexByte(st.sofar, DOT)
    IN  IF i = 0 /\ ~eof THEN st
        ELSE
          LET found == i # 0
              cut == IF found THEN i ELSE Len(st.sofar) + 1
              seg == SubSeq(st.sofar, 1, cut - 1)
              st1 == [sofar |-> IF Len(st.sofar) > cut - 1
                                THEN SubSeq(st.sofar, cut + 1, Len(st.sofar))
                                ELSE st.sofar,
                      protected |-> IF st.state = 0 THEN seg ELSE st.protected,
                      payload |-> IF st.state = 1 THEN seg ELSE st.payload,
                      signature |-> IF st.state = 2 THEN seg ELSE st.signature,
                      periods |-> IF found THEN st.periods + 1 ELSE st.periods,
                      state |-> IF st.state < 2 THEN st.state + 1 ELSE st.state]
          IN  IF found THEN Scan(st1, eof) ELSE st1

\* a Read that returns n bytes, with io.EOF (eof) or with a nil error
ReadChunk ==
    /\ ~splitRet.done
    /\ ~rdr.buffered
    /\ \E n \in 0..Min(ChunkSize, Len(rdr.src) - rdr.pos), eof \in BOOLEAN :
         /\ eof => rdr.pos + n = Len(rdr.src)
         /\ LET chunk == SubSeq(rdr.src, rdr.pos + 1, rdr.pos + n)
                st == Scan([Locals EXCEPT !.sofar = sofar \o chunk], eof)
            IN  /\ rdr' = [rdr EXCEPT !.pos = rdr.pos + n]
                /\ sofar' = st.sofar
                /\ protected' = st.protected
                /\ payload' = st.payload
                /\ signature' = st.signature
                /\ periods' = st.periods
                /\ state' = st.state
                /\ splitRet' =
                     IF ~eof THEN splitRet
                     ELSE IF st.periods # 2 THEN Return(SplitFail(ErrSegments))
                     ELSE Return([ok |-> TRUE, err |-> "", protected |-> st.protected,
                                  payload |-> st.payload, signature |-> st.signature])
    /\ UNCHANGED <<mainVars, concVars, parsed, algVars>>

\* a Read that returns an error other than io.EOF
ReadError ==
    /\ ~splitRet.done
    /\ ~rdr.buffered
    /\ \E n \in 0..Min(ChunkSize, Len(rdr.src) - rdr.pos) :
         rdr' = [rdr EXCEPT !.pos = rdr.pos + n]
    /\ splitRet' = Return(SplitFail(ErrRead))
    /\ UNCHANGED <<sofar, protected, payload, signature, periods, state>>
    /\ UNCHANGED <<mainVars, concVars, parsed, algVars>>

\* readAll: a *bytes.Reader, *bytes.Buffer or *strings.Reader is drained at
\* once and handed to SplitCompact
ReadAllSplit ==
    /\ ~splitRet.done
    /\ rdr.buffered
    /\ rdr' = [rdr EXCEPT !.pos = Len(rdr.src)]
    /\ splitRet' = Return(SplitCompact(rdr.src))
    /\ UNCHANGED <<sofar, protected, payload, signature, periods, state>>
    /\ UNCHANGED <<mainVars, concVars, parsed, algVars>>

----------------------------------------------------------------------------
(* Headers and their JSON form.  A Headers value carries the fields the    *)
(* package reads: alg, kid and b64 ("" / "absent": the field is not set;   *)
(* b64 = "other": the field holds a value that is not a boolean).  The     *)
(* JSON text of a header is '{', two bytes (name, value) per field that is *)
(* set, '}'; a later field of the same name overrides an earlier one.      *)

NewHeaders == [alg |-> "", kid |-> "", b64 |-> "absent"]

AlgByte(a) ==
    IF a = "HS256" THEN 72 ELSE IF a = "RS256" THEN 82
    ELSE IF a = "ES256" THEN 69 ELSE 78

ByteAlg(c) ==
    IF c = 72 THEN "HS256" ELSE IF c = 82 THEN "RS256"
    ELSE IF c = 69 THEN "ES256" ELSE IF c = 78 THEN "none" ELSE ""

KidByte(k) == IF k = "k1" THEN 49 ELSE 50

ByteKid(c) == IF c = 49 THEN "k1" ELSE IF c = 50 THEN "k2" ELSE ""

B64Byte(b) == IF b = "true" THEN 116 ELSE IF b = "false" THEN 102 ELSE 115

ByteB64(c) ==
    IF c = 116 THEN "true" ELSE IF c = 102 THEN "false"
    ELSE IF c = 115 THEN "other" ELSE ""

\* json.Marshal(Headers)
MarshalHeaders(h) ==
    <<LBRACE>>
    \o (IF h.alg # "" THEN <<97, AlgByte(h.alg)>> ELSE <<>>)
    \o (IF h.kid # "" THEN <<107, KidByte(h.kid)>> ELSE <<>>)
    \o (IF h.b64 # "absent" THEN <<98, B64Byte(h.b64)>> ELSE <<>>)
    \o <<125>>

\* the fields of a JSON object body, folded into h: [ok, hdr]
RECURSIVE UnmarshalFields(_, _)
UnmarshalFields(b, h) ==
    IF Len(b) = 0 THEN [ok |-> TRUE, hdr |-> h]
    ELSE IF Len(b) = 1 THEN [ok |-> FALSE, hdr |-> NewHeaders]
    ELSE
      LET rest == SubSeq(b, 3, Len(b))
      IN  IF b[1] = 97 /\ ByteAlg(b[2]) # ""
            THEN UnmarshalFields(rest, [h EXCEPT !.alg = ByteAlg(b[2])])
          ELSE IF b[1] = 107 /\ ByteKid(b[2]) # ""
            THEN UnmarshalFields(rest, [h EXCEPT !.kid = ByteKid(b[2])])
          ELSE IF b[1] = 98 /\ ByteB64(b[2]) # ""
            THEN UnmarshalFields(rest, [h EXCEPT !.b64 = ByteB64(b[2])])
          ELSE [ok |-> FALSE, hdr |-> NewHeaders]

\* json.Unmarshal(data, hdr) into a fresh Headers: [ok, hdr]
UnmarshalHeaders(b) ==
    IF Len(b) < 2 \/ b[1] # LBRACE \/ b[Len(b)] # 125
    THEN [ok |-> FALSE, hdr |-> NewHeaders]
    ELSE UnmarshalFields(SubSeq(b, 2, Len(b) - 1), NewHeaders)

\* getB64Value: true when the field is absent, its value when it is a
\* boolean, false when it is anything else
getB64Value(hdr) ==
    IF hdr.b64 = "absent" THEN TRUE
    ELSE IF hdr.b64 \notin {"true", "false"} THEN FALSE
    ELSE hdr.b64 = "true"

----------------------------------------------------------------------------
(* Keys, and the ideal Signer / Verifier *)

\* a key: a raw key or a jwk.Key ("jwk") over key material mat; kid, alg
\* and use are what KeyID(), Algorithm() and KeyUsage() return
RawKey(m) == [form |-> "raw", mat |-> m, kid |-> "", alg |-> "", use |-> ""]

JwkKey(m, k, a, u) == [form |-> "jwk", mat |-> m, kid |-> k, alg |-> a, use |-> u]

KeyTypeOf(m) ==
    IF m \in {"oct1", "oct2"} THEN "oct"
    ELSE IF m = "rsa1" THEN "RSA"
    ELSE "EC"

AlgKeyType(a) ==
    IF a = "HS256" THEN "oct"
    ELSE IF a = "RS256" THEN "RSA"
    ELSE "EC"

SupportedAlgs == {"HS256", "RS256", "ES256"}

\* NewSigner(alg) / NewVerifier(alg) succeed for the algorithms they know
NewSignerOk(alg) == alg \in SupportedAlgs

NewVerifierOk(alg) == alg \in SupportedAlgs

\* Signer.Sign fails on a key that is not of its algorithm's key type
SignerAccepts(alg, key) == KeyTypeOf(key.mat) = AlgKeyType(alg)

\* one consultation of the Verifier
VerifierCall(alg, key, msg, sig) ==
    [alg |-> alg, mat |-> key.mat, msg |-> msg, sig |-> sig]

\* Verifier.Verify: it accepts exactly what the Signer produced for the
\* same algorithm, key material and message
VerifierVerify(vc) == vc \in ledger

----------------------------------------------------------------------------
(* Signing *)

ErrNewSigner == "failed to create signer"
ErrSign == "failed sign payload"
ErrNoSigners == "no signers provided"
ErrSignMulti == "failed to generate signature for signer"

\* Signature.Sign, the header it signs: alg is merged in, and the key id
\* of a jwk.Key that has one
SignedHeaders(prot, alg, key) ==
    [prot EXCEPT !.alg = IF @ = "" THEN alg ELSE @,
                 !.kid = IF key.form = "jwk" /\ key.kid # "" THEN key.kid ELSE @]

\* the payload as it stands in the signing input and in the serialization
PayloadRepr(b64, pl) == IF b64 THEN EncodeToString(pl) ELSE pl

\* Signature.Sign, the signing input: BASE64URL(protected) '.' payload
SigningInput(hdr, pl) ==
    EncodeToString(MarshalHeaders(hdr)) \o <<DOT>> \o PayloadRepr(getB64Value(hdr), pl)

\* the compact serialization
Compact(input, sig) == input \o <<DOT>> \o EncodeToString(sig)

NoDoc == [valid |-> FALSE, payload |-> <<>>, signatures |-> <<>>]

CompactBuf(text) == [text |-> text, doc |-> NoDoc]

\* a JSON text: '{' ... '}' whose content json.Unmarshal reads as doc
JSONBuf(doc) == [text |-> <<LBRACE, 125>>, doc |-> doc]

NoBuf == CompactBuf(<<>>)

\* Signer.Sign, the signature bytes: HMAC and RSA PKCS#1 signatures are a
\* function of key and message.  The bytes are a digest of one byte (HS256)
\* or two (the others); which signatures verify is decided by the ledger.
RECURSIVE Sum(_)
Sum(b) == IF Len(b) = 0 THEN 0 ELSE b[1] + Sum(Tail(b))

SignerSign(alg, key, msg) ==
    LET d == (Sum(msg) + AlgByte(alg) + Len(key.mat)) % 256
    IN  IF alg = "HS256" THEN <<d>> ELSE <<255, d>>

----------------------------------------------------------------------------
(* Messages *)

\* jws.Signature as Verify builds and reads it
Sig(prot, pub, sigbytes) ==
    [protected |-> prot, headers |-> pub, signature |-> sigbytes]

\* jws.Message
Message(pl, b64, sigs) == [payload |-> pl, b64 |-> b64, signatures |-> sigs]

NoMessage == Message(<<>>, TRUE, <<>>)

\* Message.MarshalJSON: the payload as base64url, or raw under b64 = false
\* (one b64 for the message, that of its first signature), and one entry
\* per signature
MarshalMessage(pl, sigs) ==
    LET b64 == IF Len(sigs) = 0 THEN TRUE ELSE getB64Value(sigs[1].protected)
    IN  [valid |-> TRUE, payload |-> PayloadRepr(b64, pl), signatures |-> sigs]

\* Message.UnmarshalJSON: [ok, msg]
UnmarshalMessage(doc) ==
    IF ~doc.valid THEN [ok |-> FALSE, msg |-> NoMessage]
    ELSE
      LET b64 == IF Len(doc.signatures) = 0 THEN TRUE
                 ELSE getB64Value(doc.signatures[1].protected)
          pl == IF b64 THEN Decode(doc.payload) ELSE [ok |-> TRUE, val |-> doc.payload]
      IN  IF ~pl.ok THEN [ok |-> FALSE, msg |-> NoMessage]
          ELSE [ok |-> TRUE, msg |-> Message(pl.val, b64, doc.signatures)]

----------------------------------------------------------------------------
(* Verification.  A result: ok / err, the payload returned, the Verifier   *)
(* consultations made on the way (calls), and the Message a sink receives  *)
(* (msg, written by the caller of these operators only when ok); for       *)
(* VerifySet also the indices of the keys it handed to Verify (tried).     *)

ErrEmpty == "attempt to verify empty buffer"
ErrExtract == "failed extract from compact serialization format"
ErrNewVerifier == "failed to create verifier"
ErrDecodeSignature == "failed to decode signature"
ErrDecodeHeaders == "failed to decode headers"
ErrKid == "\"kid\" fields do not match"
ErrVerify == "failed to verify message"
ErrDecodePayload == "message verified, failed to decode payload"
ErrUnmarshal == "failed to unmarshal JSON message"
ErrAmbiguous == "can't specify detached payload for JWS with payload"
ErrNoSignature == "could not verify with any of the signatures"
ErrNoKey == "failed to verify message with any of the keys in the jwk.Set object"

VFail(e, calls) ==
    [ok |-> FALSE, err |-> e, payload |-> <<>>, calls |-> calls, msg |-> NoMessage,
     tried |-> <<>>]

VOk(pl, calls, m) ==
    [ok |-> TRUE, err |-> "", payload |-> pl, calls |-> calls, msg |-> m,
     tried |-> <<>>]

\* the detached-payload option: not given (nil), or given with bytes val
NoDetached == [set |-> FALSE, val |-> <<>>]

Detached(p) == [set |-> TRUE, val |-> p]

\* (mutant) the kid check made only when the key declares a key id
kidMismatchBothSet(hdr, key) ==
    hdr.kid # "" /\ key.form = "jwk" /\ key.kid # "" /\ key.kid # hdr.kid

\* verifyCompact, the kid check: the header names a key id, the key is a
\* jwk.Key and its KeyID() is another
kidMismatch(hdr, key) == hdr.kid # "" /\ key.form = "jwk" /\ key.kid # hdr.kid

\* verifyCompact, the payload it signs and returns: the detached payload
\* stands in for an empty payload segment
payloadOrDetached(pl, detachedPayload) ==
    IF Len(pl) = 0 /\ detachedPayload.set THEN detachedPayload.val ELSE pl

\* (mutant) the payload segment returned as it stands, whatever b64 says
decodePayloadRaw(hdr, pl) == [ok |-> TRUE, val |-> pl]

\* (mutant) the payload segment base64-decoded, whatever b64 says
decodePayloadAlways(hdr, pl) == Decode(pl)

\* verifyCompact, the payload returned once the signature has verified:
\* as it stands under b64 = false, base64-decoded otherwise: [ok, val]
decodePayload(hdr, pl) ==
    IF ~getB64Value(hdr) THEN [ok |-> TRUE, val |-> pl] ELSE Decode(pl)

verifyCompact(signed, alg, key, detachedPayload) ==
    LET sp == SplitCompact(signed)
    IN
    IF ~sp.ok THEN VFail(ErrExtract, <<>>)
    ELSE IF ~NewVerifierOk(alg) THEN VFail(ErrNewVerifier, <<>>)
    ELSE
      LET pl == payloadOrDetached(sp.payload, detachedPayload)
          verifyBuf == sp.protected \o <<DOT>> \o pl
          decodedSignature == Decode(sp.signature)
          decodedProtected == Decode(sp.protected)
          uh == UnmarshalHeaders(decodedProtected.val)
          vc == VerifierCall(alg, key, verifyBuf, decodedSignature.val)
          decodedPayload == decodePayload(uh.hdr, pl)
      IN
      IF ~decodedSignature.ok THEN VFail(ErrDecodeSignature, <<>>)
      ELSE IF ~decodedProtected.ok THEN VFail(ErrDecodeHeaders, <<>>)
      ELSE IF ~uh.ok THEN VFail(ErrDecodeHeaders, <<>>)
      ELSE IF kidMismatch(uh.hdr, key) THEN VFail(ErrKid, <<>>)
      ELSE IF ~VerifierVerify(vc) THEN VFail(ErrVerify, <<vc>>)
      ELSE IF ~decodedPayload.ok THEN VFail(ErrDecodePayload, <<vc>>)
      ELSE VOk(decodedPayload.val, <<vc>>,
               Message(decodedPayload.val, TRUE,
                       <<Sig(uh.hdr, NewHeaders, decodedSignature.val)>>))

\* verifyJSON, the kid check on a signature's (unprotected) headers
kidSkip(hdr, key) == hdr.kid # "" /\ key.form = "jwk" /\ key.kid # hdr.kid

\* (mutant) the loop gives up at the first signature the Verifier rejects
RECURSIVE verifySignaturesAbort(_, _, _, _, _, _)
verifySignaturesAbort(m, pl, alg, key, i, calls) ==
    IF i > Len(m.signatures) THEN VFail(ErrNoSignature, calls)
    ELSE
      LET sig == m.signatures[i]
          vc == VerifierCall(alg, key,
                    EncodeToString(MarshalHeaders(sig.protected)) \o <<DOT>> \o pl,
                    sig.signature)
      IN  IF kidSkip(sig.headers, key)
            THEN verifySignaturesAbort(m, pl, alg, key, i + 1, calls)
          ELSE IF VerifierVerify(vc)
            THEN VOk(m.payload, Append(calls, vc), m)
          ELSE VFail(ErrNoSignature, Append(calls, vc))

\* (mutant) the loop returns at the first signature the kid check lets
\* through, without asking the Verifier
RECURSIVE verifySignaturesTrusting(_, _, _, _, _, _)
verifySignaturesTrusting(m, pl, alg, key, i, calls) ==
    IF i > Len(m.signatures) THEN VFail(ErrNoSignature, calls)
    ELSE
      LET sig == m.signatures[i]
          vc == VerifierCall(alg, key,
                    EncodeToString(MarshalHeaders(sig.protected)) \o <<DOT>> \o pl,
                    sig.signature)
      IN  IF kidSkip(sig.headers, key)
            THEN verifySignaturesTrusting(m, pl, alg, key, i + 1, calls)
          ELSE VOk(m.payload, Append(calls, vc), m)

\* verifyJSON's loop over m.signatures, from signature i on
RECURSIVE verifySignatures(_, _, _, _, _, _)
verifySignatures(m, pl, alg, key, i, calls) ==
    IF i > Len(m.signatures) THEN VFail(ErrNoSignature, calls)
    ELSE
      LET sig == m.signatures[i]
          hdr == sig.headers
          vc == VerifierCall(alg, key,
                    EncodeToString(MarshalHeaders(sig.protected)) \o <<DOT>> \o pl,
                    sig.signature)
      IN  IF kidSkip(hdr, key)
            THEN verifySignatures(m, pl, alg, key, i + 1, calls)
          ELSE IF VerifierVerify(vc)
            THEN VOk(m.payload, Append(calls, vc), m)
          ELSE verifySignatures(m, pl, alg, key, i + 1, Append(calls, vc))

verifyJSON(signed, alg, key, detachedPayload) ==
    LET um == UnmarshalMessage(signed.doc)
        m == IF detachedPayload.set
             THEN [um.msg EXCEPT !.payload = detachedPayload.val] ELSE um.msg
    IN
    IF ~NewVerifierOk(alg) THEN VFail(ErrNewVerifier, <<>>)
    ELSE IF ~um.ok THEN VFail(ErrUnmarshal, <<>>)
    ELSE IF Len(um.msg.payload) # 0 /\ detachedPayload.set
      THEN VFail(ErrAmbiguous, <<>>)
    ELSE verifySignatures(m, PayloadRepr(m.b64, m.payload), alg, key, 1, <<>>)

\* utf8.DecodeRune, for the encodings of one and two bytes: the rune the
\* bytes begin with and its width; 65533 (utf8.RuneError) with width 1 for
\* a byte that begins no such encoding
DecodeRune(b) ==
    IF Len(b) = 0 THEN [rune |-> 65533, size |-> 0]
    ELSE IF b[1] < 128 THEN [rune |-> b[1], size |-> 1]
    ELSE IF b[1] >= 194 /\ b[1] <= 223 /\ Len(b) >= 2 /\ b[2] >= 128 /\ b[2] <= 191
      THEN [rune |-> (b[1] - 192) * 64 + (b[2] - 128), size |-> 2]
    ELSE [rune |-> 65533, size |-> 1]

\* utf8.DecodeLastRune: the rune the bytes end with
DecodeLastRune(b) ==
    IF Len(b) = 0 THEN [rune |-> 65533, size |-> 0]
    ELSE IF b[Len(b)] < 128 THEN [rune |-> b[Len(b)], size |-> 1]
    ELSE IF Len(b) >= 2 /\ DecodeRune(SubSeq(b, Len(b) - 1, Len(b))).size = 2
      THEN DecodeRune(SubSeq(b, Len(b) - 1, Len(b)))
    ELSE [rune |-> 65533, size |-> 1]

\* unicode.IsSpace, for the runes below U+0800
IsSpace(r) == r \in {9, 10, 11, 12, 13, 32, 133, 160}

\* bytes.TrimSpace
RECURSIVE TrimLeft(_)
TrimLeft(b) ==
    IF Len(b) > 0 /\ IsSpace(DecodeRune(b).rune)
    THEN TrimLeft(SubSeq(b, DecodeRune(b).size + 1, Len(b))) ELSE b

RECURSIVE TrimRight(_)
TrimRight(b) ==
    IF Len(b) > 0 /\ IsSpace(DecodeLastRune(b).rune)
    THEN TrimRight(SubSeq(b, 1, Len(b) - DecodeLastRune(b).size)) ELSE b

TrimSpace(b) == TrimRight(TrimLeft(b))

\* Verify, the path it takes on a buffer
VerifyPath(t) ==
    IF Len(TrimSpace(t)) = 0 THEN "invalid"
    ELSE IF TrimSpace(t)[1] = LBRACE THEN "json"
    ELSE "compact"

\* Verify, without the sink: the caller writes r.msg to it when r.ok
Verify(b, alg, key, detachedPayload) ==
    LET text == TrimSpace(b.text)
    IN  IF Len(text) = 0 THEN VFail(ErrEmpty, <<>>)
        ELSE IF text[1] = LBRACE THEN verifyJSON(b, alg, key, detachedPayload)
        ELSE verifyCompact(text, alg, key, detachedPayload)

\* (mutant) the usage of the key is not looked at
keyEligibleAnyUse(key) == key.alg # ""

\* VerifySet, the keys it uses: an algorithm is declared, and the usage is
\* empty or "sig"
keyEligible(key) == key.alg # "" /\ ~(key.use # "" /\ key.use # "sig")

\* VerifySet's loop over the keys of the set, from index i on; tried: the
\* indices of the keys handed to Verify
RECURSIVE verifyKeys(_, _, _, _, _)
verifyKeys(b, set, i, calls, tried) ==
    IF i > Len(set) THEN [VFail(ErrNoKey, calls) EXCEPT !.tried = tried]
    ELSE
      LET key == set[i]
          r == Verify(b, key.alg, key, NoDetached)
      IN  IF ~keyEligible(key) THEN verifyKeys(b, set, i + 1, calls, tried)
          ELSE IF ~r.ok
            THEN verifyKeys(b, set, i + 1, calls \o r.calls, Append(tried, i))
          ELSE [VOk(r.payload, calls \o r.calls, NoMessage)
                  EXCEPT !.tried = Append(tried, i)]

VerifySet(b, set) == verifyKeys(b, set, 1, <<>>, <<>>)

----------------------------------------------------------------------------
(* Bounds and input domains *)

MaxBufLen == 5
MaxPayloadLen == 2
MaxSigners == 3
MaxKeys == 2

SplitBytes == {DOT, 97}
PayloadBytes == {DOT, 97}
TamperBytes == {DOT, 65, 66}

RECURSIVE SeqsUpTo(_, _)
SeqsUpTo(S, n) ==
    IF n = 0 THEN {<<>>}
    ELSE LET shorter == SeqsUpTo(S, n - 1)
         IN  shorter \cup {Append(s, x) : s \in {t \in shorter : Len(t) = n - 1}, x \in S}

\* the sequences among them that name no element twice
DistinctSeqsUpTo(S, n) ==
    {s \in SeqsUpTo(S, n) : \A i, j \in 1..Len(s) : i # j => s[i] # s[j]}

Payloads == SeqsUpTo(PayloadBytes, MaxPayloadLen)

Algs == {"HS256", "RS256", "none"}

Keys == {RawKey("oct1"), RawKey("oct2"), RawKey("rsa1"),
         JwkKey("oct1", "k1", "", ""), JwkKey("oct1", "", "", ""),
         JwkKey("rsa1", "k2", "", "")}

\* the headers handed to Sign with WithHeaders (NewHeaders: none)
HeaderOptions == {[alg |-> "", kid |-> k, b64 |-> b] :
                    k \in {"", "k2"}, b \in {"absent", "true", "false", "other"}}

\* WithSigner(signer, key, public, protected): the signer's algorithm, the
\* key and the two headers
Config(alg, key, prot, pub) == [alg |-> alg, key |-> key, protected |-> prot, public |-> pub]

Configs == {Config("HS256", RawKey("oct1"), NewHeaders, NewHeaders),
            Config("RS256", JwkKey("rsa1", "k2", "", ""), NewHeaders, NewHeaders),
            Config("HS256", RawKey("oct1"), [NewHeaders EXCEPT !.alg = "none"],
                   [NewHeaders EXCEPT !.kid = "k1"]),
            Config("HS256", RawKey("oct2"), [NewHeaders EXCEPT !.b64 = "false"], NewHeaders),
            Config("HS256", RawKey("rsa1"), NewHeaders, NewHeaders)}

\* the keys of a jwk.Set
SetKeys == {JwkKey("oct1", "k1", "HS256", "sig"), JwkKey("oct1", "", "HS256", "enc"),
            JwkKey("rsa1", "k2", "RS256", ""), JwkKey("oct1", "k1", "", "sig"),
            JwkKey("oct2", "", "HS256", "")}

----------------------------------------------------------------------------
(* Actions: one call of Sign or SignMulti produces a message; the message  *)
(* may lose its payload (a detached JWS) or have one symbol replaced on    *)
(* the way; one call of Verify or VerifySet reads it.                      *)

NoRet == [VFail("", <<>>) EXCEPT !.err = ""]

NoVCall == [op |-> "none", alg |-> "", key |-> RawKey(""), set |-> <<>>,
            sink |-> FALSE, detached |-> NoDetached]

\* the signing call on record: its inputs as signer configurations (Sign
\* has one), its outcome, and the Signatures it built; for SignMulti also
\* the index and algorithm its error names, whether configurations share a
\* Headers object, and the consultations of the Signers in the order made
Call(op, pl, configs, ok, err, sigs) ==
    [op |-> op, payload |-> pl, configs |-> configs, ok |-> ok, err |-> err,
     sigs |-> sigs, failed |-> 0, failedAlg |-> "", shared |-> FALSE,
     invoked |-> <<>>]

NoCall == Call("none", <<>>, <<>>, FALSE, "", <<>>)

\* Sign, the cache lookup of a call that runs alone: the Signer of alg is
\* constructed and stored unless the cache has one
CacheSigner(alg) ==
    IF signers[alg] # 0 THEN UNCHANGED <<signers, made>>
    ELSE /\ made' = Append(made, alg)
         /\ signers' = [signers EXCEPT ![alg] = Len(made) + 1]

\* Sign(payload, alg, key, WithHeaders(hdrs))
Sign ==
    /\ call.op = "none" /\ ret = NoRet
    /\ \E pl \in Payloads, alg \in Algs, key \in Keys, hdrs \in HeaderOptions :
         LET cfg == <<Config(alg, key, hdrs, NewHeaders)>>
             hdr == SignedHeaders(hdrs, alg, key)
             input == SigningInput(hdr, pl)
             sig == SignerSign(alg, key, input)
         IN  IF ~NewSignerOk(alg) THEN
                /\ call' = Call("Sign", pl, cfg, FALSE, ErrNewSigner, <<>>)
                /\ UNCHANGED <<signers, made, ledger, buf>>
             ELSE IF ~SignerAccepts(alg, key) THEN
                /\ CacheSigner(alg)
                /\ call' = Call("Sign", pl, cfg, FALSE, ErrSign, <<>>)
                /\ UNCHANGED <<ledger, buf>>
             ELSE
                /\ CacheSigner(alg)
                /\ ledger' = ledger \cup {VerifierCall(alg, key, input, sig)}
                /\ buf' = CompactBuf(Compact(input, sig))
                /\ call' = Call("Sign", pl, cfg, TRUE, "", <<Sig(hdr, NewHeaders, sig)>>)
    /\ UNCHANGED <<edit, vcall, ret, dst>>
    /\ UNCHANGED <<splitVars, concVars, parsed, algVars>>

\* the Headers objects behind the protected headers of the configurations:
\* refs[i] = i when configuration i has an object of its own, and the index
\* of the first configuration with the same object when it shares one
Refs(configs, shared) ==
    [i \in 1..Len(configs) |->
        IF shared
        THEN CHOOSE j \in 1..i :
                 /\ configs[j].protected = configs[i].protected
                 /\ \A k \in 1..(j - 1) : configs[k].protected # configs[i].protected
        ELSE i]

\* SignMulti, one signer: protected.Set(AlgorithmKey, ...) and Signature.Sign
\* on the Headers object h of configuration c leave the object like this,
\* and this is the header that is signed
MultiHeader(h, c) == SignedHeaders([h EXCEPT !.alg = c.alg], c.alg, c.key)

\* the Headers objects once signers 1..n have run
RECURSIVE MultiHeap(_, _, _)
MultiHeap(configs, refs, n) ==
    IF n = 0 THEN [i \in 1..Len(configs) |-> configs[i].protected]
    ELSE LET h == MultiHeap(configs, refs, n - 1)
         IN  [h EXCEPT ![refs[n]] = MultiHeader(h[refs[n]], configs[n])]

\* signer i: its signing input, and the consultation of its Signer
MultiInput(configs, refs, i, pl) ==
    SigningInput(MultiHeap(configs, refs, i)[refs[i]], pl)

Invocation(configs, refs, i, pl) ==
    [index |-> i, alg |-> configs[i].alg, key |-> configs[i].key,
     msg |-> MultiInput(configs, refs, i, pl)]

\* signer i's Signature as the Message holds it when n signers have run
MultiSig(configs, refs, i, n, pl) ==
    Sig(MultiHeap(configs, refs, n)[refs[i]], configs[i].public,
        SignerSign(configs[i].alg, configs[i].key, MultiInput(configs, refs, i, pl)))

\* (mutant) a failing Signer is passed over
FirstFailingNone(configs) == 0

\* the index of the first signer whose Signer fails, 0 when none does
FirstFailing(configs) ==
    LET bad == {i \in 1..Len(configs) : ~SignerAccepts(configs[i].alg, configs[i].key)}
    IN  IF bad = {} THEN 0 ELSE CHOOSE i \in bad : \A j \in bad : i <= j

\* SignMulti(payload, WithSigner(...), ...), the signers pairwise distinct;
\* configurations with equal protected headers may have been given one
\* Headers object
SignMulti ==
    /\ call.op = "none" /\ ret = NoRet
    /\ \E pl \in Payloads, configs \in DistinctSeqsUpTo(Configs, MaxSigners),
          shared \in BOOLEAN :
         LET refs == Refs(configs, shared)
             f == FirstFailing(configs)
             n == IF f = 0 THEN Len(configs) ELSE f - 1
             sigs == [i \in 1..n |-> MultiSig(configs, refs, i, n, pl)]
             signed == {VerifierCall(configs[i].alg, configs[i].key,
                                     MultiInput(configs, refs, i, pl), sigs[i].signature) :
                          i \in 1..n}
             invoked == [i \in 1..(IF f = 0 THEN n ELSE f) |->
                            Invocation(configs, refs, i, pl)]
             c == [Call("SignMulti", pl, configs, FALSE, "", <<>>)
                     EXCEPT !.shared = \E i \in 1..Len(configs) : refs[i] # i,
                            !.invoked = invoked]
         IN  IF Len(configs) = 0 THEN
                /\ call' = [c EXCEPT !.err = ErrNoSigners]
                /\ UNCHANGED <<ledger, buf>>
             ELSE IF f # 0 THEN
                /\ ledger' = ledger \cup signed
                /\ call' = [c EXCEPT !.err = ErrSignMulti, !.failed = f,
                                     !.failedAlg = configs[f].alg]
                /\ UNCHANGED buf
             ELSE
                /\ ledger' = ledger \cup signed
                /\ buf' = JSONBuf(MarshalMessage(pl, sigs))
                /\ call' = [c EXCEPT !.ok = TRUE, !.sigs = sigs]
    /\ UNCHANGED <<signers, made, edit, vcall, ret, dst>>
    /\ UNCHANGED <<splitVars, concVars, parsed, algVars>>

\* a compact message from another JWS implementation: the holder of a key
\* has signed, with the same Signer, a protected header and a payload
\* segment that need not be base64url text
ForeignHeaders == {[NewHeaders EXCEPT !.alg = "HS256", !.b64 = b] : b \in {"absent", "true"}}

ForeignSign ==
    /\ call.op = "none" /\ ret = NoRet
    /\ \E seg \in Payloads, hdr \in ForeignHeaders :
         LET key == RawKey("oct1")
             input == EncodeToString(MarshalHeaders(hdr)) \o <<DOT>> \o seg
             sig == SignerSign("HS256", key, input)
         IN  /\ ledger' = ledger \cup {VerifierCall("HS256", key, input, sig)}
             /\ buf' = CompactBuf(Compact(input, sig))
             /\ call' = Call("Foreign", seg, <<Config("HS256", key, hdr, NewHeaders)>>,
                             TRUE, "", <<Sig(hdr, NewHeaders, sig)>>)
    /\ UNCHANGED <<signers, made, edit, vcall, ret, dst>>
    /\ UNCHANGED <<splitVars, concVars, parsed, algVars>>

\* the message travels without its payload: the payload segment of the
\* compact form is emptied, the payload member of the JSON form dropped
DetachPayload ==
    /\ call.ok /\ edit = "none" /\ ret = NoRet
    /\ edit' = "detached"
    /\ buf' = IF call.op # "SignMulti"
              THEN CompactBuf(EncodeToString(MarshalHeaders(call.sigs[1].protected))
                              \o <<DOT, DOT>> \o EncodeToString(call.sigs[1].signature))
              ELSE JSONBuf([buf.doc EXCEPT !.payload = <<>>])
    /\ UNCHANGED <<signers, made, ledger, call, vcall, ret, dst>>
    /\ UNCHANGED <<splitVars, concVars, parsed, algVars>>

\* one symbol of a segment of the compact message is replaced by another
Tamper ==
    /\ call.ok /\ call.op = "Sign" /\ edit = "none" /\ ret = NoRet
    /\ \E i \in 1..Len(buf.text), c \in TamperBytes :
         /\ c # buf.text[i]
         /\ i # Len(EncodeToString(MarshalHeaders(call.sigs[1].protected))) + 1
         /\ i # Len(buf.text) - Len(EncodeToString(call.sigs[1].signature))
         /\ buf' = CompactBuf([buf.text EXCEPT ![i] = c])
    /\ edit' = "tampered"
    /\ UNCHANGED <<signers, made, ledger, call, vcall, ret, dst>>
    /\ UNCHANGED <<splitVars, concVars, parsed, algVars>>

\* the sink a Verify call was given holds its previous Message until
\* Verify writes it
OldMessage == Message(<<111>>, TRUE, <<>>)

\* (mutant) the sink is written whatever Verify returns
DoVerifySinkAlways(alg, key, sink, detached) ==
    LET r == Verify(buf, alg, key, detached)
    IN  /\ vcall' = [NoVCall EXCEPT !.op = "Verify", !.alg = alg, !.key = key,
                                    !.sink = sink, !.detached = detached]
        /\ ret' = r
        /\ dst' = IF sink THEN r.msg ELSE dst
        /\ UNCHANGED <<signers, made, ledger, call, buf, edit>>
        /\ UNCHANGED <<splitVars, concVars, parsed, algVars>>

DoVerify(alg, key, sink, detached) ==
    LET r == Verify(buf, alg, key, detached)
    IN  /\ vcall' = [NoVCall EXCEPT !.op = "Verify", !.alg = alg, !.key = key,
                                    !.sink = sink, !.detached = detached]
        /\ ret' = r
        /\ dst' = IF sink /\ r.ok THEN r.msg ELSE dst
        /\ UNCHANGED <<signers, made, ledger, call, buf, edit>>
        /\ UNCHANGED <<splitVars, concVars, parsed, algVars>>

\* Verify(buf, alg, key, [WithMessage(dst)], [WithDetachedPayload(p)])
VerifyCall ==
    /\ ret = NoRet /\ vcall.op = "none" /\ edit # "tampered"
    /\ call.ok \/ call.op = "none"
    /\ \E alg \in Algs, key \in Keys, sink \in BOOLEAN,
          detached \in {NoDetached, Detached(call.payload), Detached(<<98>>)} :
         DoVerify(alg, key, sink, detached)

\* Verify of a message that was tampered with, with the algorithm and key
\* it was signed with
VerifyTampered ==
    /\ ret = NoRet /\ vcall.op = "none" /\ edit = "tampered"
    /\ \E sink \in BOOLEAN :
         DoVerify(call.configs[1].alg, call.configs[1].key, sink, NoDetached)

\* VerifySet(buf, set), the keys of the set pairwise distinct
VerifySetCall ==
    /\ ret = NoRet /\ vcall.op = "none" /\ edit # "tampered"
    /\ call.ok
    /\ \E set \in DistinctSeqsUpTo(SetKeys, MaxKeys) :
         /\ vcall' = [NoVCall EXCEPT !.op = "VerifySet", !.set = set]
         /\ ret' = VerifySet(buf, set)
    /\ UNCHANGED <<signers, made, ledger, call, buf, edit, dst>>
    /\ UNCHANGED <<splitVars, concVars, parsed, algVars>>

----------------------------------------------------------------------------
(* Parse and ParseReader.  A result: the path taken ("json", "compact", or *)
(* "invalid" when the call fails before it takes one), ok / err, and the   *)
(* Message.                                                                *)

ErrInvalidBytes == "invalid byte sequence"
ErrReadRune == "failed to read rune"
ErrParseMessage == "failed to parse jws message"
ErrParseJSON == "failed to unmarshal jws message"
ErrCompactFormat == "invalid compact serialization format"
ErrParseProtected == "failed to decode protected headers"
ErrParseHeaders == "failed to parse JOSE headers"
ErrParsePayload == "failed to decode payload"
ErrParseSignature == "failed to decode signature"

PFail(path, e) == [path |-> path, ok |-> FALSE, err |-> e, msg |-> NoMessage]

POk(path, m) == [path |-> path, ok |-> TRUE, err |-> "", msg |-> m]

\* parse: the three segments decoded into a Message (its b64 field keeps
\* the zero value)
parse(prot, pl, sig) ==
    LET decodedHeader == Decode(prot)
        uh == UnmarshalHeaders(decodedHeader.val)
        decodedPayload == Decode(pl)
        decodedSignature == Decode(sig)
    IN  IF ~decodedHeader.ok THEN PFail("compact", ErrParseProtected)
        ELSE IF ~uh.ok THEN PFail("compact", ErrParseHeaders)
        ELSE IF ~decodedPayload.ok THEN PFail("compact", ErrParsePayload)
        ELSE IF ~decodedSignature.ok THEN PFail("compact", ErrParseSignature)
        ELSE POk("compact", Message(decodedPayload.val, FALSE,
                                    <<Sig(uh.hdr, NewHeaders, decodedSignature.val)>>))

parseCompact(data) ==
    LET sp == SplitCompact(data)
    IN  IF ~sp.ok THEN PFail("compact", ErrCompactFormat)
        ELSE parse(sp.protected, sp.payload, sp.signature)

\* parseJSON and parseJSONReader
parseJSON(b) ==
    LET um == UnmarshalMessage(b.doc)
    IN  IF ~um.ok THEN PFail("json", ErrParseJSON) ELSE POk("json", um.msg)

\* Parse, its loop from byte i on: a byte of a multi-byte encoding makes it
\* decode the rune the buffer begins with
RECURSIVE ParseFrom(_, _)
ParseFrom(b, i) ==
    IF i > Len(b.text) THEN PFail("invalid", ErrInvalidBytes)
    ELSE
      LET r == IF b.text[i] >= 128 THEN DecodeRune(b.text).rune ELSE b.text[i]
      IN  IF IsSpace(r) THEN ParseFrom(b, i + 1)
          ELSE IF r = LBRACE THEN parseJSON(b)
          ELSE parseCompact(b.text)

Parse(b) == ParseFrom(b, 1)

\* SplitCompactReader on a reader that is read in chunks, when the reader
\* delivers all its bytes and then the end of input
SplitCompactStream(src) ==
    LET st == Scan([sofar |-> src, protected |-> <<>>, payload |-> <<>>,
                    signature |-> <<>>, periods |-> 0, state |-> 0], TRUE)
    IN  IF st.periods # 2 THEN SplitFail(ErrSegments)
        ELSE [ok |-> TRUE, err |-> "", protected |-> st.protected,
              payload |-> st.payload, signature |-> st.signature]

parseCompactReader(rest) ==
    LET sp == SplitCompactStream(rest)
    IN  IF ~sp.ok THEN PFail("compact", ErrCompactFormat)
        ELSE parse(sp.protected, sp.payload, sp.signature)

\* ParseReader on a reader that readAll does not drain: runes are read from
\* byte i on up to the first that is no white space, and the parser for it
\* reads on from there
RECURSIVE ReadRunes(_, _)
ReadRunes(b, i) ==
    IF i > Len(b.text) THEN PFail("invalid", ErrReadRune)
    ELSE
      LET rest == SubSeq(b.text, i, Len(b.text))
          d == DecodeRune(rest)
          r == IF d.rune = LBRACE THEN parseJSON([b EXCEPT !.text = rest])
               ELSE parseCompactReader(rest)
      IN  IF IsSpace(d.rune) THEN ReadRunes(b, i + d.size)
          ELSE IF ~r.ok THEN [r EXCEPT !.err = ErrParseMessage]
          ELSE r

ParseReader(b, buffered) == IF buffered THEN Parse(b) ELSE ReadRunes(b, 1)

MaxSrcLen == 4

\* a blank, '{', a letter, U+00E9 in UTF-8 (two bytes), U+00A0 (white
\* space) in UTF-8
ParseBytes == {32, LBRACE, 97, 195, 169, 194, 160}

SampleHeader == SignedHeaders(NewHeaders, "HS256", RawKey("oct1"))

SampleCompact ==
    CompactBuf(Compact(SigningInput(SampleHeader, <<97>>),
                       SignerSign("HS256", RawKey("oct1"), SigningInput(SampleHeader, <<97>>))))

SampleJSON ==
    JSONBuf(MarshalMessage(<<97>>,
        <<Sig(SampleHeader, NewHeaders,
              SignerSign("HS256", RawKey("oct1"), SigningInput(SampleHeader, <<97>>)))>>))

\* the buffers parsed: every short byte string, and two messages after
\* some white space
ParseSources ==
    {CompactBuf(t) : t \in SeqsUpTo(ParseBytes, MaxSrcLen)}
    \cup {[m EXCEPT !.text = ws \o m.text] :
            ws \in {<<>>, <<32>>, <<194, 160>>}, m \in {SampleCompact, SampleJSON}}

NoParse == [fn |-> "none", src |-> NoBuf, buffered |-> FALSE, res |-> PFail("none", "")]

ParseIdle == parsed = NoParse

ParseCall ==
    /\ parsed = NoParse
    /\ \E b \in ParseSources :
         parsed' = [fn |-> "Parse", src |-> b, buffered |-> FALSE, res |-> Parse(b)]
    /\ UNCHANGED <<mainVars, splitVars, concVars, algVars>>

ParseReaderCall ==
    /\ parsed = NoParse
    /\ \E b \in ParseSources, buffered \in BOOLEAN :
         parsed' = [fn |-> "ParseReader", src |-> b, buffered |-> buffered,
                    res |-> ParseReader(b, buffered)]
    /\ UNCHANGED <<mainVars, splitVars, concVars, algVars>>

\* Verify on the same buffers, with an algorithm and a key
VerifyRaw ==
    /\ parsed = NoParse
    /\ \E b \in ParseSources :
         LET r == Verify(b, "HS256", RawKey("oct1"), NoDetached)
         IN  parsed' = [fn |-> "Verify", src |-> b, buffered |-> FALSE,
                        res |-> [path |-> VerifyPath(b.text), ok |-> r.ok,
                                 err |-> r.err, msg |-> r.msg]]
    /\ UNCHANGED <<mainVars, splitVars, concVars, algVars>>

----------------------------------------------------------------------------
(* Sign called from several processes at once: one action per step of a    *)
(* call that touches the mutex, the cache or the Signer.                   *)

NumProcs == 2
MaxCalls == 2

Procs == 1..NumProcs

ConcKeys == {RawKey("oct1")}

ConcPayload == <<97>>

\* what a Sign call returned
NoOut == [ok |-> FALSE, err |-> "", text |-> <<>>]

\* a process's frame: the arguments alg and key, the locals signer and v
\* (Signer instances, 0 for none), the calls it has made and the last result
IdleFrame == [alg |-> "", key |-> RawKey(""), signer |-> 0, v |-> 0, calls |-> 0,
              out |-> NoOut]

ConcIdle ==
    /\ muSigner = 0
    /\ pc = [p \in Procs |-> "idle"]
    /\ frame = [p \in Procs |-> IdleFrame]

\* (mutant) Lock never waits
MutexIgnored == TRUE

\* muSigner.Lock() can return: nobody holds the mutex
MutexFree == muSigner = 0

\* the calls of Sign made so far by the processes 1..n
RECURSIVE CallsUpTo(_)
CallsUpTo(n) == IF n = 0 THEN 0 ELSE frame[n].calls + CallsUpTo(n - 1)

\* Sign is entered with an algorithm and a key
Enter(p) ==
    /\ pc[p] = "idle" /\ CallsUpTo(NumProcs) < MaxCalls
    /\ \E alg \in Algs, key \in ConcKeys :
         frame' = [frame EXCEPT ![p] = [IdleFrame EXCEPT !.alg = alg, !.key = key,
                                                         !.calls = frame[p].calls + 1]]
    /\ pc' = [pc EXCEPT ![p] = "lock"]
    /\ UNCHANGED <<muSigner, mainVars, splitVars, parsed, algVars>>

\* muSigner.Lock()
Lock(p) ==
    /\ pc[p] = "lock" /\ MutexFree
    /\ muSigner' = p
    /\ pc' = [pc EXCEPT ![p] = "lookup"]
    /\ UNCHANGED <<frame, mainVars, splitVars, parsed, algVars>>

\* signer, ok := signers[alg]
Lookup(p) ==
    /\ pc[p] = "lookup"
    /\ frame' = [frame EXCEPT ![p].signer = signers[frame[p].alg]]
    /\ pc' = [pc EXCEPT ![p] = IF signers[frame[p].alg] # 0 THEN "unlock" ELSE "construct"]
    /\ UNCHANGED <<muSigner, mainVars, splitVars, parsed, algVars>>

\* v, err := NewSigner(alg)
Construct(p) ==
    /\ pc[p] = "construct"
    /\ IF NewSignerOk(frame[p].alg)
       THEN /\ made' = Append(made, frame[p].alg)
            /\ frame' = [frame EXCEPT ![p].v = Len(made) + 1]
            /\ pc' = [pc EXCEPT ![p] = "store"]
       ELSE /\ pc' = [pc EXCEPT ![p] = "unlockErr"]
            /\ UNCHANGED <<made, frame>>
    /\ UNCHANGED <<muSigner, signers, ledger, call, buf, edit, vcall, ret, dst>>
    /\ UNCHANGED <<splitVars, parsed, algVars>>

\* signers[alg] = v; signer = v
Store(p) ==
    /\ pc[p] = "store"
    /\ signers' = [signers EXCEPT ![frame[p].alg] = frame[p].v]
    /\ frame' = [frame EXCEPT ![p].signer = frame[p].v]
    /\ pc' = [pc EXCEPT ![p] = "unlock"]
    /\ UNCHANGED <<muSigner, made, ledger, call, buf, edit, vcall, ret, dst>>
    /\ UNCHANGED <<splitVars, parsed, algVars>>

\* muSigner.Unlock() once the Signer is at hand
Unlock(p) ==
    /\ pc[p] = "unlock"
    /\ muSigner' = 0
    /\ pc' = [pc EXCEPT ![p] = "sign"]
    /\ UNCHANGED <<frame, mainVars, splitVars, parsed, algVars>>

\* (mutant) the error return when NewSigner failed, without the Unlock
UnlockErrHolding(p) ==
    /\ pc[p] = "unlockErr"
    /\ frame' = [frame EXCEPT ![p].out = [NoOut EXCEPT !.err = ErrNewSigner]]
    /\ pc' = [pc EXCEPT ![p] = "idle"]
    /\ UNCHANGED <<muSigner, mainVars, splitVars, parsed, algVars>>

\* muSigner.Unlock() and the error return when NewSigner failed
UnlockErr(p) ==
    /\ pc[p] = "unlockErr"
    /\ muSigner' = 0
    /\ frame' = [frame EXCEPT ![p].out = [NoOut EXCEPT !.err = ErrNewSigner]]
    /\ pc' = [pc EXCEPT ![p] = "idle"]
    /\ UNCHANGED <<mainVars, splitVars, parsed, algVars>>

\* sig.Sign(payload, signer, key) and the return of Sign
InvokeSigner(p) ==
    /\ pc[p] = "sign"
    /\ LET alg == frame[p].alg
           key == frame[p].key
           input == SigningInput(SignedHeaders(NewHeaders, alg, key), ConcPayload)
           sig == SignerSign(alg, key, input)
       IN  IF ~SignerAccepts(alg, key)
           THEN /\ frame' = [frame EXCEPT ![p].out = [NoOut EXCEPT !.err = ErrSign]]
                /\ UNCHANGED ledger
           ELSE /\ ledger' = ledger \cup {VerifierCall(alg, key, input, sig)}
                /\ frame' = [frame EXCEPT ![p].out =
                               [ok |-> TRUE, err |-> "", text |-> Compact(input, sig)]]
    /\ pc' = [pc EXCEPT ![p] = "idle"]
    /\ UNCHANGED <<muSigner, signers, made, call, buf, edit, vcall, ret, dst>>
    /\ UNCHANGED <<splitVars, parsed, algVars>>

----------------------------------------------------------------------------
(* AlgorithmsForKey and the registry it reads.  A key: its Go type (shape) *)
(* and, for a jwk.Key, what KeyType() returns ("" is jwa.InvalidKeyType).  *)

ErrInvalidKey == "invalid key"
ErrInvalidKeyType == "invalid key type"

\* func init, the calls of addAlgorithmForKeyType in the order it makes them
Registrations ==
    <<<<"OKP", "EdDSA">>,
      <<"oct", "HS256">>, <<"oct", "HS384">>, <<"oct", "HS512">>,
      <<"RSA", "PS256">>, <<"RSA", "PS384">>, <<"RSA", "PS512">>,
      <<"RSA", "RS256">>, <<"RSA", "RS384">>, <<"RSA", "RS512">>,
      <<"EC", "ES256">>, <<"EC", "ES384">>, <<"EC", "ES512">>>>

\* keyTypeToAlgorithms[kty] = append(keyTypeToAlgorithms[kty], alg)
addAlgorithmForKeyType(reg, kty, alg) ==
    [k \in DOMAIN reg \cup {kty} |->
        IF k = kty THEN Append(IF kty \in DOMAIN reg THEN reg[kty] ELSE <<>>, alg)
        ELSE reg[k]]

\* the registry after the first n registrations, from the empty map
RECURSIVE Registered(_)
Registered(n) ==
    IF n = 0 THEN <<>>
    ELSE addAlgorithmForKeyType(Registered(n - 1), Registrations[n][1], Registrations[n][2])

AlgKey(shape, kty) == [shape |-> shape, kty |-> kty]

\* AlgorithmsForKey, the type switch: the key type, "default" for a type
\* that is none of the cases
KeyTypeOfShape(key) ==
    IF key.shape = "jwk.Key" THEN key.kty
    ELSE IF key.shape \in {"rsa.PublicKey", "*rsa.PublicKey",
                           "rsa.PrivateKey", "*rsa.PrivateKey"} THEN "RSA"
    ELSE IF key.shape \in {"ecdsa.PublicKey", "*ecdsa.PublicKey",
                           "ecdsa.PrivateKey", "*ecdsa.PrivateKey"} THEN "EC"
    ELSE IF key.shape \in {"ed25519.PublicKey", "ed25519.PrivateKey",
                           "x25519.PublicKey", "x25519.PrivateKey"} THEN "OKP"
    ELSE IF key.shape = "[]byte" THEN "oct"
    ELSE "default"

\* AlgorithmsForKey: [ok, err, algs]
AlgorithmsForKey(reg, key) ==
    LET kty == KeyTypeOfShape(key)
    IN  IF kty = "default" THEN [ok |-> FALSE, err |-> ErrInvalidKey, algs |-> <<>>]
        ELSE IF kty \notin DOMAIN reg
          THEN [ok |-> FALSE, err |-> ErrInvalidKeyType, algs |-> <<>>]
        ELSE [ok |-> TRUE, err |-> "", algs |-> reg[kty]]

MaxAlgCalls == 2

\* the keys AlgorithmsForKey is called with: every type of its switch, a
\* jwk.Key of every key type and of the invalid one, and two types that
\* are no key
AlgKeys ==
    {AlgKey(sh, "") : sh \in {"rsa.PublicKey", "*rsa.PublicKey", "rsa.PrivateKey",
                              "*rsa.PrivateKey", "ecdsa.PublicKey", "*ecdsa.PublicKey",
                              "ecdsa.PrivateKey", "*ecdsa.PrivateKey",
                              "ed25519.PublicKey", "ed25519.PrivateKey",
                              "x25519.PublicKey", "x25519.PrivateKey",
                              "[]byte", "string", "*dsa.PublicKey"}}
    \cup {AlgKey("jwk.Key", kty) : kty \in {"oct", "RSA", "EC", "OKP", ""}}

AlgIdle ==
    /\ keyTypeToAlgorithms = Registered(Len(Registrations))
    /\ algLog = <<>>

AlgorithmsForKeyCall ==
    /\ Len(algLog) < MaxAlgCalls
    /\ \E key \in AlgKeys :
         algLog' = Append(algLog,
                      [key |-> key, res |-> AlgorithmsForKey(keyTypeToAlgorithms, key)])
    /\ UNCHANGED keyTypeToAlgorithms
    /\ UNCHANGED <<mainVars, splitVars, concVars, parsed>>

----------------------------------------------------------------------------
(* Specifications *)

MainIdle ==
    /\ signers = [a \in Algs |-> 0]
    /\ made = <<>>
    /\ ledger = {}
    /\ call = NoCall
    /\ buf = NoBuf
    /\ edit = "none"
    /\ vcall = NoVCall
    /\ ret = NoRet
    /\ dst = OldMessage

SplitIdle ==
    /\ rdr = [src |-> <<>>, pos |-> 0, buffered |-> TRUE]
    /\ sofar = <<>>
    /\ protected = <<>>
    /\ payload = <<>>
    /\ signature = <<>>
    /\ periods = 0
    /\ state = 0
    /\ splitRet = Return(SplitFail(""))

\* SplitCompactReader is entered with a reader over any bounded buffer
InitSplit ==
    /\ MainIdle /\ ConcIdle /\ ParseIdle /\ AlgIdle
    /\ \E src \in SeqsUpTo(SplitBytes, MaxBufLen), b \in BOOLEAN :
         rdr = [src |-> src, pos |-> 0, buffered |-> b]
    /\ sofar = <<>>
    /\ protected = <<>>
    /\ payload = <<>>
    /\ signature = <<>>
    /\ periods = 0
    /\ state = 0
    /\ splitRet = Running

Init == MainIdle /\ SplitIdle /\ ConcIdle /\ ParseIdle /\ AlgIdle

Next == Sign \/ SignMulti \/ ForeignSign \/ DetachPayload \/ VerifyCall \/ VerifySetCall

Spec == Init /\ [][Next]_vars

NextTamper == Sign \/ Tamper \/ VerifyTampered

SpecTamper == Init /\ [][NextTamper]_vars

NextSplit == ReadChunk \/ ReadError \/ ReadAllSplit

SpecSplit == InitSplit /\ [][NextSplit]_vars

NextConc ==
    \E p \in Procs :
        \/ Enter(p) \/ Lock(p) \/ Lookup(p) \/ Construct(p) \/ Store(p)
        \/ Unlock(p) \/ UnlockErr(p) \/ InvokeSigner(p)

SpecConc == Init /\ [][NextConc]_vars

\* the steps of Sign between Lock and Unlock; the mutex lets one process
\* at a time take them
Critical(p) ==
    Lookup(p) \/ Construct(p) \/ Store(p) \/ Unlock(p) \/ UnlockErr(p)

\* fair scheduling of the Sign calls: a goroutine that is not blocked goes
\* on with its next step; one that waits in Lock gets the mutex if it is
\* free again and again (sync.Mutex hands it to a starving waiter); the
\* Signer is outside the package and returns for every process but the
\* first, whose Signer may block for ever. No process has to call Sign.
SpecConcFair ==
    /\ SpecConc
    /\ \A p \in Procs : SF_vars(Lock(p)) /\ WF_vars(Critical(p))
    /\ \A p \in Procs \ {1} : WF_vars(InvokeSigner(p))

NextParse == ParseCall \/ ParseReaderCall \/ VerifyRaw

SpecParse == Init /\ [][NextParse]_vars

NextAlg == AlgorithmsForKeyCall

SpecAlg == Init /\ [][NextAlg]_vars

----------------------------------------------------------------------------
(* The claims.  What they speak of: *)

\* the algorithm and key Sign was called with
SignAlg == call.configs[1].alg

SignKey == call.configs[1].key

\* the message as the signing call returned it
OriginalBuf ==
    IF call.op = "Sign"
    THEN CompactBuf(Compact(SigningInput(call.sigs[1].protected, call.payload),
                            call.sigs[1].signature))
    ELSE JSONBuf(MarshalMessage(call.payload, call.sigs))

\* the path Verify takes on a buffer
CompactPath(b) == LET t == TrimSpace(b.text) IN Len(t) > 0 /\ t[1] # LBRACE

JSONPath(b) == LET t == TrimSpace(b.text) IN Len(t) > 0 /\ t[1] = LBRACE

\* the segments of a compact message, and its protected header when the
\* segment decodes and parses
Segments(b) == SplitCompact(TrimSpace(b.text))

ParsedProtected(b) ==
    LET d == Decode(Segments(b).protected)
    IN  IF Segments(b).ok /\ d.ok THEN UnmarshalHeaders(d.val)
        ELSE [ok |-> FALSE, hdr |-> NewHeaders]

\* Verify was called on the message Sign returned, untouched, with the
\* algorithm and key it was signed with and no option
VerifiedAsSigned ==
    /\ call.op = "Sign" /\ call.ok /\ edit = "none"
    /\ vcall.op = "Verify" /\ vcall.alg = SignAlg /\ vcall.key = SignKey
    /\ ~vcall.detached.set

\* C1: round trip. For every payload and every algorithm / key pair the
\* Signer accepts, Verify(Sign(payload, alg, key), alg, key) succeeds and
\* returns exactly payload.
C1_RoundTrip ==
    (VerifiedAsSigned /\ call.configs[1].protected = NewHeaders)
        => (ret.ok /\ ret.payload = call.payload)

C1_Witness ==
    /\ VerifiedAsSigned /\ call.configs[1].protected = NewHeaders
    /\ ret.ok /\ ret.payload = call.payload /\ Len(call.payload) = MaxPayloadLen
    /\ SignAlg = "RS256"

B64False == [NewHeaders EXCEPT !.b64 = "false"]

\* C2 as stated: for every payload P, '.' bytes included, Sign with the
\* protected header {"b64": false} yields a compact message whose payload
\* segment is P verbatim, and Verify of it with the same algorithm and key
\* succeeds and returns P.
C2_B64FalseRoundTripAnyPayload ==
    (VerifiedAsSigned /\ call.configs[1].protected = B64False)
        => /\ Segments(buf).ok /\ Segments(buf).payload = call.payload
           /\ ret.ok /\ ret.payload = call.payload

\* C2 as amended: the same for every payload P that holds no '.' byte.
C2_B64FalseRoundTrip ==
    (VerifiedAsSigned /\ call.configs[1].protected = B64False
        /\ ~Contains(call.payload, DOT))
        => /\ Segments(buf).ok /\ Segments(buf).payload = call.payload
           /\ ret.ok /\ ret.payload = call.payload

C2_Witness ==
    /\ VerifiedAsSigned /\ call.configs[1].protected = B64False
    /\ call.payload = <<97, 97>>
    /\ Segments(buf).payload = <<97, 97>>
    /\ ret.ok /\ ret.payload = <<97, 97>>

\* C3: tampering. For every validly signed compact message (Verify accepts
\* it as signed), replacing one symbol of a segment by another symbol makes
\* Verify with the same algorithm and key fail.
C3_TamperedFails ==
    (edit = "tampered" /\ vcall.op = "Verify"
        /\ Verify(OriginalBuf, SignAlg, SignKey, NoDetached).ok)
        => ~ret.ok

\* C6: key-id enforcement on the compact path. When the protected header
\* carries a kid and the key is a jwk.Key whose key id is another, Verify
\* fails without consulting the Verifier, returns no payload and leaves the
\* sink alone; the error is the kid mismatch whenever the checks that come
\* before it (the Verifier exists, the signature segment decodes) pass.
C6_KidMismatch ==
    (/\ vcall.op = "Verify" /\ CompactPath(buf)
     /\ ParsedProtected(buf).ok /\ ParsedProtected(buf).hdr.kid # ""
     /\ vcall.key.form = "jwk" /\ vcall.key.kid # ParsedProtected(buf).hdr.kid)
        => /\ ~ret.ok /\ ret.calls = <<>> /\ ret.payload = <<>>
           /\ dst = OldMessage
           /\ (NewVerifierOk(vcall.alg) /\ Decode(Segments(buf).signature).ok)
                 => ret.err = ErrKid

\* the kid differs, a sink was given, and the Verifier would have accepted
C6_Witness ==
    /\ vcall.op = "Verify" /\ CompactPath(buf) /\ vcall.sink
    /\ ParsedProtected(buf).hdr.kid = "k1"
    /\ vcall.key.form = "jwk" /\ vcall.key.kid = ""
    /\ ret.err = ErrKid /\ dst = OldMessage
    /\ VerifierVerify(VerifierCall(vcall.alg, vcall.key,
           Segments(buf).protected \o <<DOT>> \o Segments(buf).payload,
           Decode(Segments(buf).signature).val))

\* C7: detached payload. For a message validly signed over P (Verify of
\* the message as signed returns P) whose payload was then emptied, Verify
\* with the detached payload P succeeds and returns P, in the compact and
\* in the JSON form, whatever b64 is.
C7_DetachedPayloadReturned ==
    (/\ call.ok /\ edit = "detached"
     /\ vcall.op = "Verify" /\ vcall.detached = Detached(call.payload)
     /\ LET o == Verify(OriginalBuf, vcall.alg, vcall.key, NoDetached)
        IN  o.ok /\ o.payload = call.payload)
        => (ret.ok /\ ret.payload = call.payload)

\* the message holds a payload of its own that is not empty
HasEmbeddedPayload(b) ==
    IF CompactPath(b) THEN Segments(b).ok /\ Len(Segments(b).payload) > 0
    ELSE /\ JSONPath(b) /\ UnmarshalMessage(b.doc).ok
         /\ Len(UnmarshalMessage(b.doc).msg.payload) > 0

\* C8: ambiguous payload. Verify with a detached payload of a message that
\* carries a non-empty payload of its own fails with the ambiguous-payload
\* error, in either form; stated here of the messages whose signature is
\* valid over the embedded payload.
C8_AmbiguousPayloadFails ==
    (/\ vcall.op = "Verify" /\ vcall.detached.set /\ HasEmbeddedPayload(buf)
     /\ Verify(buf, vcall.alg, vcall.key, NoDetached).ok)
        => (~ret.ok /\ ret.err = ErrAmbiguous)

\* verifyJSON has reached its loop over the signatures
JSONLoopReached ==
    /\ vcall.op = "Verify" /\ JSONPath(buf)
    /\ NewVerifierOk(vcall.alg)
    /\ UnmarshalMessage(buf.doc).ok
    /\ ~(Len(UnmarshalMessage(buf.doc).msg.payload) # 0 /\ vcall.detached.set)

\* the Message it loops over, and the payload as the signing input has it
LoopMessage ==
    LET m == UnmarshalMessage(buf.doc).msg
    IN  IF vcall.detached.set THEN [m EXCEPT !.payload = vcall.detached.val] ELSE m

\* signature i is submitted to the Verifier; what is submitted; whether the
\* Verifier accepts it
Submitted(i) == ~kidSkip(LoopMessage.signatures[i].headers, vcall.key)

Submission(i) ==
    VerifierCall(vcall.alg, vcall.key,
        EncodeToString(MarshalHeaders(LoopMessage.signatures[i].protected))
            \o <<DOT>> \o PayloadRepr(LoopMessage.b64, LoopMessage.payload),
        LoopMessage.signatures[i].signature)

AcceptedSigs ==
    {i \in 1..Len(LoopMessage.signatures) : Submitted(i) /\ Submission(i) \in ledger}

\* the submissions among signatures 1..n, in array order
RECURSIVE SubmissionsUpTo(_)
SubmissionsUpTo(n) ==
    IF n = 0 THEN <<>>
    ELSE IF Submitted(n) THEN Append(SubmissionsUpTo(n - 1), Submission(n))
    ELSE SubmissionsUpTo(n - 1)

\* signature i of the message SignMulti returned stands with the protected
\* header its Signer signed
CarriesSignedHeader(i) ==
    call.invoked[i].msg = SigningInput(call.sigs[i].protected, call.payload)

Eligible(i) ==
    vcall.set[i].alg # "" /\ vcall.set[i].use \in {"", "sig"}

VerifyWithKey(i) == Verify(buf, vcall.set[i].alg, vcall.set[i], NoDetached)

SucceedingKeys ==
    {i \in 1..Len(vcall.set) : Eligible(i) /\ VerifyWithKey(i).ok}

RECURSIVE EligibleUpTo(_)
EligibleUpTo(n) ==
    IF n = 0 THEN <<>>
    ELSE IF Eligible(n) THEN Append(EligibleUpTo(n - 1), n)
    ELSE EligibleUpTo(n - 1)

\* C10: VerifySet walks the keys in index order; it hands to Verify only
\* the keys that declare an algorithm and whose usage is empty or "sig",
\* each time with the buffer it was given; it returns the payload of the
\* first such key Verify succeeds with and tries none after it; it fails
\* with the no-key error exactly when there is no such key.
C10_FirstEligibleKeyWins ==
    vcall.op = "VerifySet" =>
        IF SucceedingKeys = {}
        THEN /\ ~ret.ok /\ ret.err = ErrNoKey
             /\ ret.tried = EligibleUpTo(Len(vcall.set))
        ELSE LET first == CHOOSE i \in SucceedingKeys : \A j \in SucceedingKeys : i <= j
             IN  /\ ret.ok /\ ret.payload = VerifyWithKey(first).payload
                 /\ ret.tried = EligibleUpTo(first)

\* the first key is for encryption and would verify the message; the
\* second is for signatures and is the only one tried
C10_Witness ==
    /\ vcall.op = "VerifySet" /\ Len(vcall.set) = 2
    /\ vcall.set[1].use = "enc" /\ VerifyWithKey(1).ok
    /\ vcall.set[2].use = "sig"
    /\ ret.ok /\ ret.tried = <<2>> /\ ret.payload = call.payload
    /\ Len(call.payload) > 0

----------------------------------------------------------------------------
(* C4, C5 *)

\* C4: SplitCompactReader over a non-buffered reader that delivered the whole
\* buffer (no read error) returns what SplitCompact returns on the buffer:
\* the same failure, or the same three segments.
C4_StreamEqualsEager ==
    (splitRet.done /\ ~rdr.buffered /\ splitRet.res.err # ErrRead)
        => splitRet.res = SplitCompact(rdr.src)

\* C5: SplitCompact succeeds only on exactly three dot-delimited segments:
\* fewer than two or more than two '.' bytes fail with the segments error
\* and return no segments.
C5_ExactlyThreeSegments ==
    (splitRet.done /\ rdr.buffered)
        => IF Count(rdr.src, DOT) = 2
           THEN splitRet.res.ok
           ELSE splitRet.res = SplitFail(ErrSegments)

----------------------------------------------------------------------------
(* C11 *)

\* the Signers constructed for algorithm a
MadeFor(a) == {i \in 1..Len(made) : made[i] = a}

\* C11: under every interleaving of concurrent Sign calls, at most one
\* Signer is ever constructed for an algorithm; an entry of the cache, once
\* stored, is never replaced or removed; and every call that goes on to
\* sign holds the instance the cache has for its algorithm.
C11_SignerCacheAtomic ==
    /\ [](\A a \in Algs : Cardinality(MadeFor(a)) <= 1)
    /\ [][\A a \in Algs : signers[a] # 0 => signers'[a] = signers[a]]_vars
    /\ [](\A p \in Procs :
            pc[p] = "sign" =>
                /\ frame[p].signer # 0
                /\ frame[p].signer = signers[frame[p].alg]
                /\ made[frame[p].signer] = frame[p].alg)

\* two processes are about to sign with the same algorithm: one has
\* constructed and stored the Signer, the other found it in the cache
C11_Witness ==
    \E p, q \in Procs :
        /\ p # q /\ pc[p] = "sign" /\ pc[q] = "sign"
        /\ frame[p].alg = frame[q].alg
        /\ frame[p].v # 0 /\ frame[q].v = 0
        /\ frame[p].signer = frame[q].signer

----------------------------------------------------------------------------
(* C12, C13 *)

\* the header values a signing input can begin with
HeaderValues ==
    [alg : {"", "HS256", "RS256", "ES256", "none"}, kid : {"", "k1", "k2"},
     b64 : {"absent", "true", "false", "other"}]

\* C12: for every non-empty sequence of signer configurations that
\* SignMulti succeeds on, also when configurations share a Headers object,
\* the serialized Message has one signature per configuration, in the
\* order given; signature i is what the Signer of configuration i made
\* with the key of configuration i over a header and the shared payload;
\* and the protected header of signature i names the algorithm of
\* configuration i.
C12_SignMultiOrder ==
    (call.op = "SignMulti" /\ call.ok /\ edit = "none") =>
        /\ Len(buf.doc.signatures) = Len(call.configs)
        /\ Len(call.invoked) = Len(call.configs)
        /\ \A i \in 1..Len(call.configs) :
             /\ call.invoked[i].index = i
             /\ call.invoked[i].alg = call.configs[i].alg
             /\ call.invoked[i].key = call.configs[i].key
             /\ \E h \in HeaderValues :
                    call.invoked[i].msg = SigningInput(h, call.payload)
             /\ buf.doc.signatures[i].signature =
                    SignerSign(call.configs[i].alg, call.configs[i].key, call.invoked[i].msg)
             /\ buf.doc.signatures[i].headers = call.configs[i].public
             /\ buf.doc.signatures[i].protected.alg = call.configs[i].alg

\* the same for configurations that share no Headers object
C12_SignMultiOrderOwnHeaders == call.shared \/ C12_SignMultiOrder

\* the smallest index of a configuration whose Signer fails, 0 for none
MinFailing ==
    LET bad == {i \in 1..Len(call.configs) :
                   ~SignerAccepts(call.configs[i].alg, call.configs[i].key)}
    IN  IF bad = {} THEN 0 ELSE CHOOSE i \in bad : \A j \in bad : i <= j

\* C13: when the Signer of some configuration fails, SignMulti fails with
\* the error that names the smallest index i of a failing signer and its
\* algorithm; it returns no serialized message; and the Signers consulted
\* are those of configurations 1..i, in order, none after i.
C13_SignMultiAllOrNothing ==
    (call.op = "SignMulti" /\ MinFailing # 0) =>
        /\ ~call.ok /\ call.err = ErrSignMulti
        /\ call.failed = MinFailing
        /\ call.failedAlg = call.configs[MinFailing].alg
        /\ call.sigs = <<>> /\ buf = NoBuf
        /\ Len(call.invoked) = MinFailing
        /\ \A j \in 1..Len(call.invoked) :
             /\ call.invoked[j].index = j
             /\ call.invoked[j].alg = call.configs[j].alg
             /\ call.invoked[j].key = call.configs[j].key

\* three configurations, the second one's Signer fails: the first has
\* signed, the third was never consulted, nothing is returned
C13_Witness ==
    /\ call.op = "SignMulti" /\ Len(call.configs) = 3 /\ MinFailing = 2
    /\ SignerAccepts(call.configs[3].alg, call.configs[3].key)
    /\ ~call.ok /\ call.failed = 2 /\ Len(call.invoked) = 2
    /\ ledger # {} /\ buf = NoBuf

----------------------------------------------------------------------------
(* C14 *)

\* C14: a Verify call that was given a message sink writes it if and only
\* if it succeeds. After a failed call the sink holds the Message it held
\* before; after a successful call its payload is the payload returned,
\* and on the compact path it is a Message of exactly one signature, with
\* the protected header parsed from the message and the decoded signature.
C14_MessageSink ==
    (vcall.op = "Verify" /\ vcall.sink) =>
        IF ~ret.ok THEN dst = OldMessage
        ELSE /\ dst # OldMessage
             /\ dst.payload = ret.payload
             /\ CompactPath(buf) =>
                  /\ Len(dst.signatures) = 1
                  /\ ParsedProtected(buf).ok
                  /\ dst.signatures[1].protected = ParsedProtected(buf).hdr
                  /\ dst.signatures[1].signature = Decode(Segments(buf).signature).val

\* a compact message with a key id in its header verified into the sink
C14_Witness ==
    /\ vcall.op = "Verify" /\ vcall.sink /\ CompactPath(buf) /\ ret.ok
    /\ dst.payload = call.payload /\ Len(call.payload) > 0
    /\ Len(dst.signatures) = 1 /\ dst.signatures[1].protected.kid = "k2"
    /\ dst.signatures[1].signature = call.sigs[1].signature

----------------------------------------------------------------------------
(* C15 *)

\* the payload a payload representation stands for: itself when the b64
\* field is false, its base64url decoding when the field is absent or true
Stands(b64, repr, pl) ==
    CASE b64 = "false" -> repr = pl
      [] b64 \in {"absent", "true"} -> Decode(repr).ok /\ Decode(repr).val = pl
      [] OTHER -> repr = pl \/ (Decode(repr).ok /\ Decode(repr).val = pl)

\* the signing input of a Verifier consultation is the protected segment,
\* a period, and a representation of the payload pl
OverPayload(vc, protSeg, b64, pl) ==
    /\ Len(vc.msg) > Len(protSeg)
    /\ SubSeq(vc.msg, 1, Len(protSeg) + 1) = protSeg \o <<DOT>>
    /\ Stands(b64, SubSeq(vc.msg, Len(protSeg) + 2, Len(vc.msg)), pl)

\* the last consultation of the call was made with alg and key, the
\* Verifier accepted it, and it was over the payload returned
SoundReturn(alg, key) ==
    /\ Len(ret.calls) > 0
    /\ LET vc == ret.calls[Len(ret.calls)]
       IN  /\ vc \in ledger
           /\ vc.alg = alg /\ vc.mat = key.mat
           /\ IF CompactPath(buf)
              THEN /\ ParsedProtected(buf).ok
                   /\ OverPayload(vc, Segments(buf).protected,
                                  ParsedProtected(buf).hdr.b64, ret.payload)
              ELSE \E i \in 1..Len(buf.doc.signatures) :
                     OverPayload(vc,
                         EncodeToString(MarshalHeaders(buf.doc.signatures[i].protected)),
                         buf.doc.signatures[1].protected.b64, ret.payload)

\* C15: verification is sound. Whenever Verify or VerifySet returns a
\* payload, the Verifier has accepted, in that call and under the supplied
\* key (for VerifySet, the key of the set the call ended with), a signing
\* input made of a protected segment of the message, a period, and the
\* payload representation of exactly the payload returned.
C15_VerificationSound ==
    ret.ok =>
        IF vcall.op = "Verify" THEN SoundReturn(vcall.alg, vcall.key)
        ELSE /\ vcall.op = "VerifySet" /\ Len(ret.tried) > 0
             /\ LET k == vcall.set[ret.tried[Len(ret.tried)]]
                IN  SoundReturn(k.alg, k)

\* a JSON message of several signatures that travelled without its
\* payload, verified with the detached payload by its second signature
C15_Witness ==
    /\ vcall.op = "Verify" /\ JSONPath(buf) /\ edit = "detached"
    /\ vcall.detached.set /\ Len(vcall.detached.val) > 0
    /\ ret.ok /\ ret.payload = vcall.detached.val
    /\ Len(ret.calls) = 2 /\ ret.calls[1] \notin ledger /\ ret.calls[2] \in ledger

----------------------------------------------------------------------------
(* C16 *)

\* the header and the key both declare a key id, and the two differ
BothKidsDiffer(hdr, key) ==
    hdr.kid # "" /\ key.form = "jwk" /\ key.kid # "" /\ key.kid # hdr.kid

\* C16: on the compact path Verify fails with the kid-mismatch error
\* exactly when the protected header's kid and the key's key id are both
\* present and differ. When the header has no kid, or the key declares no
\* key id (a raw key, or a key object whose key id is empty), the kid check
\* does not fail the call: Verify goes on to the Verifier.
C16_KidMismatchNeedsBothIds ==
    (/\ vcall.op = "Verify" /\ CompactPath(buf)
     /\ NewVerifierOk(vcall.alg)
     /\ Segments(buf).ok /\ Decode(Segments(buf).signature).ok
     /\ ParsedProtected(buf).ok)
        => /\ (ret.err = ErrKid) = BothKidsDiffer(ParsedProtected(buf).hdr, vcall.key)
           /\ ~BothKidsDiffer(ParsedProtected(buf).hdr, vcall.key) => Len(ret.calls) = 1

----------------------------------------------------------------------------
(* C17 *)

\* signature i declares, in its protected or in its unprotected header, a
\* kid that differs from the key id the key declares
DeclaresOtherKid(i) ==
    /\ vcall.key.form = "jwk" /\ vcall.key.kid # ""
    /\ \/ LoopMessage.signatures[i].protected.kid \notin {"", vcall.key.kid}
       \/ LoopMessage.signatures[i].headers.kid \notin {"", vcall.key.kid}

\* C17: key-id enforcement on the JSON path. A signature that declares a
\* kid, in its protected or its unprotected header, which differs from the
\* key id declared by the key is never submitted to the Verifier (what the
\* Verifier was asked is the submission of a signature that declares no
\* other kid); it is skipped without error, so the call succeeds whenever
\* a signature that declares no other kid is one the Verifier accepts.
C17_JSONKidSkip ==
    JSONLoopReached =>
        /\ \A k \in 1..Len(ret.calls) :
             \E j \in 1..Len(LoopMessage.signatures) :
                ~DeclaresOtherKid(j) /\ Submission(j) = ret.calls[k]
        /\ (\E j \in 1..Len(LoopMessage.signatures) :
                ~DeclaresOtherKid(j) /\ Submission(j) \in ledger) => ret.ok

----------------------------------------------------------------------------
(* C18 *)

\* the Verifier was consulted by a Verify call on the compact path, and
\* accepted
CompactAccepted ==
    /\ vcall.op = "Verify" /\ CompactPath(buf)
    /\ Len(ret.calls) = 1 /\ ret.calls[1] \in ledger

\* C18: the b64 rule of the compact path. Once the Verifier has accepted,
\* the payload returned is the payload segment as it stands if and only if
\* the b64 field of the protected header is the boolean false; when the
\* field is absent, true, or any other value, it is the base64url decoding
\* of the segment, and a segment that does not decode fails the call with
\* the payload-decode error. That error is returned only after the
\* Verifier has accepted.
C18_B64Rule ==
    /\ (CompactAccepted /\ ~vcall.detached.set) =>
         IF ParsedProtected(buf).hdr.b64 = "false"
         THEN ret.ok /\ ret.payload = Segments(buf).payload
         ELSE IF Decode(Segments(buf).payload).ok
         THEN ret.ok /\ ret.payload = Decode(Segments(buf).payload).val
         ELSE ~ret.ok /\ ret.err = ErrDecodePayload
    /\ (vcall.op = "Verify" /\ ret.err = ErrDecodePayload) => CompactAccepted

----------------------------------------------------------------------------
(* C19 *)

\* the first rune of a byte string that is no white space, the runes
\* decoded one after the other; -1 when there is none
RECURSIVE FirstRune(_)
FirstRune(t) ==
    IF Len(t) = 0 THEN -1
    ELSE IF IsSpace(DecodeRune(t).rune)
      THEN FirstRune(SubSeq(t, DecodeRune(t).size + 1, Len(t)))
    ELSE DecodeRune(t).rune

FormatOf(t) ==
    IF FirstRune(t) = -1 THEN "invalid"
    ELSE IF FirstRune(t) = LBRACE THEN "json"
    ELSE "compact"

\* C19: format dispatch. Parse fails with the invalid-input error if and
\* only if the buffer is empty or holds white-space runes only; otherwise
\* it takes the JSON path exactly when the first rune that is no white
\* space is '{', and the compact path otherwise, multi-byte runes before
\* the '{' included; ParseReader over the same bytes and Verify take the
\* same path.
C19_FormatDispatch ==
    parsed.fn # "none" =>
        /\ parsed.res.path = FormatOf(parsed.src.text)
        /\ parsed.fn = "Parse" =>
             ((~parsed.res.ok /\ parsed.res.err = ErrInvalidBytes)
                 <=> FormatOf(parsed.src.text) = "invalid")

----------------------------------------------------------------------------
(* C20 *)

\* the bytes before the first '.', between the first two, and after the
\* second, of a stream that holds two
ThreeSegments(src) ==
    LET i == IndexByte(src, DOT)
        rest == SubSeq(src, i + 1, Len(src))
        j == IndexByte(rest, DOT)
    IN  [ok |-> TRUE, err |-> "", protected |-> SubSeq(src, 1, i - 1),
         payload |-> SubSeq(rest, 1, j - 1),
         signature |-> SubSeq(rest, j + 1, Len(rest))]

\* C20: the streaming splitter. Whatever the reader and however it hands
\* out the stream (any read sizes, a '.' first or last in a chunk, data
\* together with the end of the stream), SplitCompactReader, once it has
\* returned, has succeeded if and only if the stream holds exactly two '.'
\* bytes, and then with the bytes before the first, between the two and
\* after the second; otherwise it has failed with the segments error, or,
\* after a read error other than the end of the stream, with that error;
\* a failure returns no segments.
C20_StreamingSplitter ==
    splitRet.done =>
        IF splitRet.res.err = ErrRead THEN splitRet.res = SplitFail(ErrRead)
        ELSE IF Count(rdr.src, DOT) = 2 THEN splitRet.res = ThreeSegments(rdr.src)
        ELSE splitRet.res = SplitFail(ErrSegments)

----------------------------------------------------------------------------
(* C21 *)

\* the steps of Sign between muSigner.Lock() and muSigner.Unlock()
InCritical(p) == pc[p] \in {"lookup", "construct", "store", "unlock", "unlockErr"}

\* C21: the lock discipline of the Signer cache. A process holds the mutex
\* exactly between Lock and Unlock: it is released on the path where
\* NewSigner fails, which stores nothing in the cache, and it is not held
\* while the Signer is invoked or after Sign has returned. Hence, under
\* fair scheduling, no Sign call waits for the mutex for ever (a process
\* is again and again not waiting in Lock), and no Sign call of a process
\* whose Signer returns stays unfinished (the process is again and again
\* outside Sign), also while the first process stays blocked inside its
\* Signer.
C21_LockDiscipline ==
    /\ [](\A p \in Procs : (muSigner = p) <=> InCritical(p))
    /\ [][\A p \in Procs :
            (pc[p] = "unlockErr" /\ pc'[p] = "idle")
                => (muSigner' = 0 /\ signers' = signers /\ signers[frame[p].alg] = 0)]_vars
    /\ \A p \in Procs : []<>(pc[p] # "lock")
    /\ \A p \in Procs \ {1} : []<>(pc[p] = "idle")

\* the first process is inside its Signer, the mutex is free, and another
\* process has completed a call with a signature
C21_Witness ==
    /\ pc[1] = "sign" /\ frame[1].calls = 1 /\ muSigner = 0
    /\ \E p \in Procs \ {1} :
         /\ pc[p] = "idle" /\ frame[p].calls > 0 /\ frame[p].out.ok
         /\ frame[p].alg = frame[1].alg

----------------------------------------------------------------------------
(* C22 *)

\* the permitted algorithms of a key type, in the order listed for it
Permitted(kty) ==
    IF kty = "oct" THEN <<"HS256", "HS384", "HS512">>
    ELSE IF kty = "RSA" THEN <<"RS256", "RS384", "RS512", "PS256", "PS384", "PS512">>
    ELSE IF kty = "EC" THEN <<"ES256", "ES384", "ES512">>
    ELSE IF kty = "OKP" THEN <<"EdDSA">>
    ELSE <<>>

\* the key type of a key of a recognized shape; "" for any other key
ShapeType(key) ==
    IF key.shape = "jwk.Key" THEN key.kty
    ELSE IF key.shape = "[]byte" THEN "oct"
    ELSE IF key.shape \in {"rsa.PublicKey", "*rsa.PublicKey",
                           "rsa.PrivateKey", "*rsa.PrivateKey"} THEN "RSA"
    ELSE IF key.shape \in {"ecdsa.PublicKey", "*ecdsa.PublicKey",
                           "ecdsa.PrivateKey", "*ecdsa.PrivateKey"} THEN "EC"
    ELSE IF key.shape \in {"ed25519.PublicKey", "ed25519.PrivateKey",
                           "x25519.PublicKey", "x25519.PrivateKey"} THEN "OKP"
    ELSE ""

\* C22: AlgorithmsForKey returns, for every key of a recognized shape,
\* exactly the permitted algorithms of its key type in the listed order
\* (octet: HS256, HS384, HS512; RSA: RS256, RS384, RS512, PS256, PS384,
\* PS512; EC: ES256, ES384, ES512; OKP: EdDSA), a key object being
\* classified by its own key type; a key of an unrecognized shape or of a
\* key type the registry does not hold yields an error and no algorithms;
\* and the registry is after every call what it was after initialization.
C22_AlgorithmsForKey ==
    /\ \A i \in 1..Len(algLog) :
         LET key == algLog[i].key
             res == algLog[i].res
         IN  IF ShapeType(key) \in {"oct", "RSA", "EC", "OKP"}
             THEN res.ok /\ res.algs = Permitted(ShapeType(key))
             ELSE /\ ~res.ok /\ res.algs = <<>>
                  /\ res.err \in {ErrInvalidKey, ErrInvalidKeyType}
    /\ keyTypeToAlgorithms = Registered(Len(Registrations))

====
